---- MODULE Spec2Model ----
(***************************************************************************)
(* Model of sender.py: the Polargraph command-queue sender.                *)
(*                                                                         *)
(* Text is modelled as sequences of one-character strings, so that         *)
(* str.startswith and str.strip are computed, not assumed.  Wall-clock     *)
(* readings are whole seconds since time_started; quotients are kept as    *)
(* exact fractions [n, d].                                                 *)
(***************************************************************************)
EXTENDS Integers, Sequences, FiniteSets, TLC

\* ------------------------------------------------------------------ bounds
\* Longest queue file considered (number of lines).
MaxLines == 3
\* Most lines the device emits on its own (idle pings, chatter) in a run.
MaxExtra == 1
\* Most method calls the caller makes on the object after send_queue.
MaxApiCalls == 2
\* The readings time.time() - time_started may give, in seconds.
ClockValues == {0, 7, 7322}

\* ------------------------------------------------------------------- state
VARIABLES
    \* the invocation (constructor arguments and the world outside)
    dry_run,        \* Polargraph.dry_run
    log_mode,       \* Polargraph.log_mode: "file", "console", or anything else
    fileExists,     \* os.path.isfile(input_file)
    fileLines,      \* the queue file's lines, raw
    portOK,         \* whether serial.Serial(comm_port) succeeds
    \* the Polargraph object
    serial_port,    \* "None" or "Serial"
    file,           \* "None" or "File"
    log_file,       \* "unset" (attribute never assigned), "None", "file", "stdout"
    ready,
    file_position,
    total_lines,
    \* the resources behind the handles
    portState,      \* "unopened", "open", "closed"
    fileState,      \* "unopened", "open", "closed"
    fileCursor,     \* lines of the queue file already read through self.file
    logState,       \* "unopened", "open", "closed"
    closes,         \* how often each resource was closed
    \* the serial link and the device behind it
    tx,             \* lines written to the port, in order
    rx,             \* lines the device sent that were not read yet
    devCompleted,   \* commands the device has completed (and acknowledged)
    devExtra,       \* lines the device emitted on its own
    \* send_queue
    pc,             \* position in send_queue
    exitStatus,     \* "running", "ok", "exit1", "exception"
    now,            \* last reading of time.time() - time_started
    command_data,   \* the dict write_line returned in this iteration
    est,            \* read_line's locals time_ran .. time_left of the last call
    records,        \* command_data after update(), one per iteration
    logRows,        \* rows given to the csv writer, header first
    ops,            \* write_line / read_line calls: "write", "read_ready", "read_other"
    portOps,        \* calls made on pyserial: Serial(), write, readline, close
    estCalls,       \* how often lines 140-143 ran
    \* the caller of send_queue
    api             \* the methods it called on the object afterwards, with
                    \* what each raised and what read_line returned

vars == << dry_run, log_mode, fileExists, fileLines, portOK, serial_port, file,
           log_file, ready, file_position, total_lines, portState, fileState,
           fileCursor, logState, closes, tx, rx, devCompleted, devExtra, pc,
           exitStatus, now, command_data, est, records, logRows, ops, portOps,
           estCalls, api >>

inputs == << dry_run, log_mode, fileExists, fileLines, portOK >>

\* -------------------------------------------------------------------- text
NL == "\n"
Whitespace == {" ", NL, "\t", "\r"}

READY == << "R", "E", "A", "D", "Y" >>

\* read_line's literal for a dry run.
DryRunLine == READY \o << " ", "-", "-", " ", "D", "R", "Y", " ", "R", "U", "N" >>

\* What the device sends when it is idle or has finished a command.
ReadyLine == READY \o << NL >>

\* Other lines a device sends: none begins with READY.
ChatterLines == { << "o", "k", NL >>, << " " >> \o READY \o << NL >> }

\* str.startswith
startswith(l, prefix) ==
    /\ Len(l) >= Len(prefix)
    /\ SubSeq(l, 1, Len(prefix)) = prefix

RECURSIVE lstrip(_)
lstrip(s) ==
    IF s = << >> THEN << >>
    ELSE IF Head(s) \in Whitespace THEN lstrip(Tail(s)) ELSE s

RECURSIVE rstrip(_)
rstrip(s) ==
    IF s = << >> THEN << >>
    ELSE IF s[Len(s)] \in Whitespace THEN rstrip(SubSeq(s, 1, Len(s) - 1)) ELSE s

\* str.strip
strip(s) == rstrip(lstrip(s))

\* Line i of a queue file: a command, some with surrounding blanks, some blank.
Digit(i) == CASE i % 3 = 1 -> "1" [] i % 3 = 2 -> "2" [] OTHER -> "3"
QueueLine(i) ==
    CASE i % 3 = 1 -> << "C", Digit(i), NL >>
      [] i % 3 = 2 -> << " ", "C", Digit(i), " ", NL >>
      [] OTHER     -> << NL >>

QueueFile(n) == [i \in 1..n |-> QueueLine(i)]

\* file.readline(): the next line, or the empty string at end of file.
readline(f, cursor) == IF cursor < Len(f) THEN f[cursor + 1] ELSE << >>

\* --------------------------------------------------------------- load_file
\* The value of `lines` after `for lines, l in enumerate(self.file): pass`,
\* which starts from `lines = 0`: the index of the last line, 0 for no line.
LastIndex(f) == IF Len(f) = 0 THEN 0 ELSE Len(f) - 1

\* self.total_lines = lines + 1
CountLines(f) == LastIndex(f) + 1

\* --------------------------------------------------------------- estimator
Frac(n, d) == [n |-> n, d |-> d]

\* The int 0 that time_left starts as (line 134).
IntZero == [kind |-> "int", days |-> 0, seconds |-> 0, microseconds |-> 0]

\* datetime.timedelta(x): its first positional argument is a number of DAYS.
\* x = days.n / days.d; the result is normalised to days, seconds in 0..86399
\* and microseconds (rounded to the nearest).
timedelta(days) ==
    LET r    == days.n % days.d
        secs == (r * 86400) \div days.d
        r2   == (r * 86400) % days.d
    IN  [ kind         |-> "timedelta",
          days         |-> days.n \div days.d,
          seconds      |-> secs,
          microseconds |-> (2 * r2 * 1000000 + days.d) \div (2 * days.d) ]

\* Python truth of time_left: the int 0 and timedelta(0) are both false.
Truthy(tl) == tl.days # 0 \/ tl.seconds # 0 \/ tl.microseconds # 0

\* read_line's locals without the `if not self.ready` of line 139.
EstimateIgnoringReady(l, rdy, fp, total, t) ==
    IF startswith(l, READY)
    THEN [ ran              |-> TRUE,
           time_ran         |-> t,
           time_per_command |-> Frac(t, fp + 1),
           time_projected   |-> Frac(total * t, fp + 1),
           time_left        |-> IF fp < total
                                THEN timedelta(Frac(total * t - t * (fp + 1), fp + 1))
                                ELSE timedelta(Frac(0, 1)) ]
    ELSE [ ran              |-> FALSE,
           time_ran         |-> 0,
           time_per_command |-> Frac(0, 1),
           time_projected   |-> Frac(0, 1),
           time_left        |-> IntZero ]

\* read_line's locals without the `if self.file_position < self.total_lines`
\* of line 143: time_left is always the projection less the time run.
EstimateUnclamped(l, rdy, fp, total, t) ==
    IF startswith(l, READY) /\ ~rdy
    THEN [ ran              |-> TRUE,
           time_ran         |-> t,
           time_per_command |-> Frac(t, fp + 1),
           time_projected   |-> Frac(total * t, fp + 1),
           time_left        |-> timedelta(Frac(total * t - t * (fp + 1), fp + 1)) ]
    ELSE [ ran              |-> FALSE,
           time_ran         |-> 0,
           time_per_command |-> Frac(0, 1),
           time_projected   |-> Frac(0, 1),
           time_left        |-> IntZero ]

\* Lines 131-143: read_line's locals for response l, read with self.ready = rdy,
\* the clock showing t seconds since time_started.
Estimate(l, rdy, fp, total, t) ==
    IF startswith(l, READY) /\ ~rdy
    THEN LET time_ran         == t
             time_per_command == Frac(time_ran, fp + 1)
             time_projected   == Frac(total * time_ran, fp + 1)
             \* time_projected - time_ran, in seconds
             diff == Frac(time_projected.n - time_ran * (fp + 1), fp + 1)
         IN  [ ran              |-> TRUE,
               time_ran         |-> time_ran,
               time_per_command |-> time_per_command,
               time_projected   |-> time_projected,
               time_left        |-> IF fp < total THEN timedelta(diff)
                                    ELSE timedelta(Frac(0, 1)) ]
    ELSE [ ran              |-> FALSE,
           time_ran         |-> 0,
           time_per_command |-> Frac(0, 1),
           time_projected   |-> Frac(0, 1),
           time_left        |-> IntZero ]

\* Lines 154-156: the decomposition of time_left.
hours_left(tl)   == IF Truthy(tl) THEN tl.seconds \div 3600 ELSE 0
minutes_left(tl) == IF Truthy(tl) THEN (tl.seconds % 3600) \div 60 ELSE 0
seconds_left(tl) == IF Truthy(tl) THEN tl.seconds % 60 ELSE 0

\* Lines 148-157: the dict read_line returns.
response_data(l, fp, e) ==
    [ response         |-> l,
      commands_ran     |-> fp,
      tim_ran          |-> e.time_ran,
      time_per_command |-> e.time_per_command,
      time_left        |-> e.time_left,
      hours_left       |-> hours_left(e.time_left),
      minutes_left     |-> minutes_left(e.time_left),
      seconds_left     |-> seconds_left(e.time_left) ]

\* Percent as it would be were it taken before file_position is advanced.
PercentBeforeAdvance(fp, total) == Frac(fp - 1, total)

\* Line 170: float(file_position) / float(total_lines), kept as a fraction.
Percent(fp, total) == Frac(fp, total)

\* Lines 166-171: the dict write_line returns.
WriteData(l, fp, total) ==
    [ command     |-> l,
      line        |-> fp,
      total_lines |-> total,
      percent     |-> Percent(fp, total) ]

\* Line 209: command_data.update(response_data)
Update(cd, rd) ==
    [ command          |-> cd.command,
      line             |-> cd.line,
      total_lines      |-> cd.total_lines,
      percent          |-> cd.percent,
      response         |-> rd.response,
      commands_ran     |-> rd.commands_ran,
      tim_ran          |-> rd.tim_ran,
      time_per_command |-> rd.time_per_command,
      time_left        |-> rd.time_left,
      hours_left       |-> rd.hours_left,
      minutes_left     |-> rd.minutes_left,
      seconds_left     |-> rd.seconds_left ]

\* Line 46: log_header, the row writeheader() writes.
log_header == << "line", "command", "total_lines", "percent", "response",
                 "commands_ran", "tim_ran", "time_per_command", "time_left",
                 "hours_left", "minutes_left", "seconds_left" >>

\* commands_queued counting one command too many.
CommandsQueuedOffByOne(total, fp) == total - fp + 1

\* Line 176
commands_queued(total, fp) == total - fp

\* -------------------------------------------------------------------- Init
\* Lines 36-53: the class attributes and __init__, for every invocation.
LogModes == {"file", "console", "off"}

NoCommand == WriteData(<< >>, 0, 1)
NoEstimate == Estimate(<< >>, TRUE, 0, 0, 0)

Init ==
    /\ dry_run \in BOOLEAN
    /\ log_mode \in LogModes
    /\ fileExists \in BOOLEAN
    /\ fileLines \in {QueueFile(n) : n \in 0..MaxLines}
    /\ (~fileExists => fileLines = << >>)
    /\ portOK \in BOOLEAN
    /\ serial_port = "None"
    /\ file = "None"
    /\ log_file = "unset"
    /\ ready = FALSE
    /\ file_position = 0
    /\ total_lines = 0
    /\ portState = "unopened"
    /\ fileState = "unopened"
    /\ fileCursor = 0
    /\ logState = "unopened"
    /\ closes = [port |-> 0, file |-> 0, log |-> 0]
    /\ tx = << >>
    /\ rx = << >>
    /\ devCompleted = 0
    /\ devExtra = 0
    /\ pc = "start"
    /\ exitStatus = "running"
    /\ now = 0
    /\ command_data = NoCommand
    /\ est = NoEstimate
    /\ records = << >>
    /\ logRows = << >>
    /\ ops = << >>
    /\ portOps = 0
    /\ estCalls = 0
    /\ api = << >>

object == << serial_port, file, log_file, ready, file_position, total_lines >>
resources == << portState, fileState, fileCursor, logState, closes >>
link == << tx, rx, devCompleted, devExtra >>
history == << now, command_data, est, records, logRows, ops, estCalls >>

\* An exception nothing catches, or exit(1): the run is over.
Abort(status) ==
    /\ pc' = "done"
    /\ exitStatus' = status

\* ------------------------------------------------------ start_serial_comms
\* start_serial_comms without the dry_run test of line 86.
StartSerialCommsIgnoringDryRun ==
    /\ pc = "start"
    /\ portOps' = portOps + 1
    /\ IF portOK
       THEN /\ serial_port' = "Serial"
            /\ portState' = "open"
            /\ pc' = "load"
            /\ UNCHANGED exitStatus
       ELSE /\ serial_port' = "None"
            /\ UNCHANGED portState
            /\ Abort("exit1")
    /\ UNCHANGED << inputs, api, file, log_file, ready, file_position, total_lines,
                    fileState, fileCursor, logState, closes, link, history >>

\* send_queue going on after start_serial_comms returned False.
StartSerialCommsIgnoringFailure ==
    /\ pc = "start"
    /\ pc' = "load"
    /\ IF dry_run
       THEN UNCHANGED << serial_port, portState, portOps >>
       ELSE /\ portOps' = portOps + 1
            /\ serial_port' = IF portOK THEN "Serial" ELSE "None"
            /\ portState' = IF portOK THEN "open" ELSE portState
    /\ UNCHANGED << inputs, api, file, log_file, ready, file_position, total_lines,
                    fileState, fileCursor, logState, closes, link, history,
                    exitStatus >>

\* Lines 194-198 with start_serial_comms (73-97): open the port or exit(1).
StartSerialComms ==
    /\ pc = "start"
    /\ IF dry_run
       THEN /\ pc' = "load"
            /\ UNCHANGED << serial_port, portState, portOps, exitStatus >>
       ELSE /\ portOps' = portOps + 1
            /\ IF portOK
               THEN /\ serial_port' = "Serial"
                    /\ portState' = "open"
                    /\ pc' = "load"
                    /\ UNCHANGED exitStatus
               ELSE /\ serial_port' = "None"
                    /\ UNCHANGED portState
                    /\ Abort("exit1")
    /\ UNCHANGED << inputs, api, file, log_file, ready, file_position, total_lines,
                    fileState, fileCursor, logState, closes, link, history >>

\* --------------------------------------------------------------- load_file
\* load_file without the os.path.isfile test of line 107.
LoadFileUnchecked ==
    /\ pc = "load"
    /\ file' = "File"
    /\ fileState' = "open"
    /\ total_lines' = CountLines(fileLines)
    /\ fileCursor' = 0
    /\ pc' = "init_logger"
    /\ UNCHANGED << inputs, api, serial_port, log_file, ready, file_position,
                    portState, logState, closes, link, history, portOps,
                    exitStatus >>

\* Line 200 with load_file (99-121).
LoadFile ==
    /\ pc = "load"
    /\ IF fileExists
       THEN /\ file' = "File"
            /\ fileState' = "open"
            /\ total_lines' = CountLines(fileLines)
            /\ fileCursor' = 0
            /\ pc' = "init_logger"
            /\ UNCHANGED exitStatus
       ELSE /\ Abort("exception")
            /\ UNCHANGED << file, fileState, total_lines, fileCursor >>
    /\ UNCHANGED << inputs, api, serial_port, log_file, ready, file_position,
                    portState, logState, closes, link, history, portOps >>

\* ------------------------------------------------------------- init_logger
\* init_logger without the writeheader() of line 65.
InitLoggerWithoutHeader ==
    /\ pc = "init_logger"
    /\ log_file' = CASE log_mode = "file"    -> "file"
                     [] log_mode = "console" -> "stdout"
                     [] OTHER                -> "None"
    /\ logState' = IF log_file' # "None" THEN "open" ELSE logState
    /\ pc' = "set_ready"
    /\ UNCHANGED << inputs, api, serial_port, file, ready, file_position,
                    total_lines, portState, fileState, fileCursor, closes, link,
                    exitStatus, history, portOps >>

\* Line 202 with init_logger (55-65).
InitLogger ==
    /\ pc = "init_logger"
    /\ log_file' = CASE log_mode = "file"    -> "file"
                     [] log_mode = "console" -> "stdout"
                     [] OTHER                -> "None"
    /\ IF log_file' # "None"
       THEN /\ logState' = "open"
            /\ logRows' = Append(logRows, log_header)
       ELSE UNCHANGED << logState, logRows >>
    /\ pc' = "set_ready"
    /\ UNCHANGED << inputs, api, serial_port, file, ready, file_position, total_lines,
                    portState, fileState, fileCursor, closes, link, exitStatus,
                    now, command_data, est, records, ops, portOps, estCalls >>

\* Line 204: self.ready = True
SetReady ==
    /\ pc = "set_ready"
    /\ ready' = TRUE
    /\ pc' = "loop"
    /\ UNCHANGED << inputs, api, serial_port, file, log_file, file_position,
                    total_lines, resources, link, exitStatus, history, portOps >>

\* -------------------------------------------------------------- write_line
\* An iteration that goes back to the loop test without calling read_line.
WriteLineWithoutRead ==
    /\ pc = "loop"
    /\ commands_queued(total_lines, file_position) # 0
    /\ ready /\ file # "None"
    /\ fileCursor' = fileCursor + 1
    /\ file_position' = file_position + 1
    /\ tx' = IF dry_run THEN tx
             ELSE Append(tx, strip(readline(fileLines, fileCursor)) \o << NL >>)
    /\ portOps' = IF dry_run THEN portOps ELSE portOps + 1
    /\ command_data' = WriteData(strip(readline(fileLines, fileCursor)),
                                 file_position', total_lines)
    /\ ops' = Append(ops, "write")
    /\ UNCHANGED << inputs, api, serial_port, file, log_file, ready, total_lines,
                    portState, fileState, logState, closes, rx, devCompleted,
                    devExtra, pc, exitStatus, now, est, records, logRows,
                    estCalls >>

\* Lines 205-206 with write_line (159-173): the loop test passed, the next
\* command is read from the file and written to the port.
WriteLine ==
    /\ pc = "loop"
    /\ commands_queued(total_lines, file_position) # 0
    /\ IF ready /\ file # "None"
       THEN LET l == strip(readline(fileLines, fileCursor)) IN
            /\ fileCursor' = fileCursor + 1
            /\ file_position' = file_position + 1
            /\ IF dry_run
               THEN UNCHANGED << tx, portOps >>
               ELSE /\ tx' = Append(tx, l \o << NL >>)
                    /\ portOps' = portOps + 1
            /\ ready' = FALSE
            /\ command_data' = WriteData(l, file_position', total_lines)
            /\ ops' = Append(ops, "write")
            /\ pc' = "read"
            /\ UNCHANGED exitStatus
       ELSE /\ Abort("exception")
            /\ UNCHANGED << fileCursor, file_position, tx, portOps, ready,
                            command_data, ops >>
    /\ UNCHANGED << inputs, api, serial_port, file, log_file, total_lines, portState,
                    fileState, logState, closes, rx, devCompleted, devExtra,
                    now, est, records, logRows, estCalls >>

\* Line 164 raising (the port went away): the command was already taken from
\* the file and counted, and nothing catches the exception.
WriteLineFails ==
    /\ pc = "loop"
    /\ commands_queued(total_lines, file_position) # 0
    /\ ready /\ file # "None"
    /\ ~dry_run
    /\ fileCursor' = fileCursor + 1
    /\ file_position' = file_position + 1
    /\ portOps' = portOps + 1
    /\ Abort("exception")
    /\ UNCHANGED << inputs, api, serial_port, file, log_file, ready, total_lines,
                    portState, fileState, logState, closes, link, history >>

\* --------------------------------------------------------------- read_line
\* The rest of an iteration, lines 207-211, for the response l read at clock
\* reading t: read_line (124-157), update, writerow.
Respond(l, t) ==
    LET e  == Estimate(l, ready, file_position, total_lines, t)
        rd == response_data(l, file_position, e)
        cd == Update(command_data, rd)
    IN  /\ est' = e
        /\ estCalls' = IF e.ran THEN estCalls + 1 ELSE estCalls
        /\ now' = IF e.ran THEN t ELSE now
        /\ ready' = TRUE
        /\ records' = Append(records, cd)
        /\ logRows' = IF log_file # "None" THEN Append(logRows, cd) ELSE logRows
        /\ ops' = Append(ops, IF startswith(l, READY) THEN "read_ready"
                                                      ELSE "read_other")
        /\ pc' = "loop"

ReadLine ==
    /\ pc = "read"
    /\ \E t \in {c \in ClockValues : c >= now} :
          IF dry_run
          THEN /\ Respond(DryRunLine, t)
               /\ UNCHANGED << rx, portOps >>
          ELSE /\ rx # << >>
               /\ Respond(Head(rx), t)
               /\ rx' = Tail(rx)
               /\ portOps' = portOps + 1
    /\ UNCHANGED << inputs, api, serial_port, file, log_file, file_position,
                    total_lines, resources, tx, devCompleted, devExtra,
                    exitStatus, command_data >>

\* Line 128 raising (the port went away, or bytes that are not ASCII).
ReadLineFails ==
    /\ pc = "read"
    /\ ~dry_run
    /\ portOps' = portOps + 1
    /\ Abort("exception")
    /\ UNCHANGED << inputs, api, object, resources, link, history >>

\* ------------------------------------------------------------------- close
\* Lines 205 and 213 with close (178-183) and close_logger (68-70): the loop
\* test failed, everything is closed and send_queue returns.
Close ==
    /\ pc = "loop"
    /\ commands_queued(total_lines, file_position) = 0
    /\ fileState' = "closed"
    /\ logState' = IF log_file # "None" THEN "closed" ELSE logState
    /\ portState' = IF serial_port # "None" THEN "closed" ELSE portState
    /\ portOps' = IF serial_port # "None" THEN portOps + 1 ELSE portOps
    /\ closes' = [ file |-> closes.file + 1,
                   log  |-> IF log_file # "None" THEN closes.log + 1
                            ELSE closes.log,
                   port |-> IF serial_port # "None" THEN closes.port + 1
                            ELSE closes.port ]
    /\ pc' = "done"
    /\ exitStatus' = "ok"
    /\ UNCHANGED << inputs, api, object, fileCursor, link, history >>

\* -------------------------------------------------------------- the device
\* The machine at the other end of the port.  Its lines queue up in the port's
\* input buffer until readline (line 128) takes them.
Listening == portState = "open" /\ exitStatus = "running"

\* The device finishes a command it received and reports READY.
DeviceComplete ==
    /\ Listening
    /\ devCompleted < Len(tx)
    /\ devCompleted' = devCompleted + 1
    /\ rx' = Append(rx, ReadyLine)
    /\ UNCHANGED << inputs, api, object, resources, tx, devExtra, pc, exitStatus,
                    history, portOps >>

\* The idle device announces READY again, with nothing new completed.
DevicePing ==
    /\ Listening
    /\ devCompleted = Len(tx)
    /\ devExtra < MaxExtra
    /\ devExtra' = devExtra + 1
    /\ rx' = Append(rx, ReadyLine)
    /\ UNCHANGED << inputs, api, object, resources, tx, devCompleted, pc, exitStatus,
                    history, portOps >>

\* The device sends a line that does not begin with READY.
DeviceChatter ==
    /\ Listening
    /\ devExtra < MaxExtra
    /\ \E l \in ChatterLines :
          rx' = Append(rx, l)
    /\ devExtra' = devExtra + 1
    /\ UNCHANGED << inputs, api, object, resources, tx, devCompleted, pc, exitStatus,
                    history, portOps >>

\* ------------------------------------------------------------------ system
Next ==
    \/ StartSerialComms
    \/ LoadFile
    \/ InitLogger
    \/ SetReady
    \/ WriteLine
    \/ WriteLineFails
    \/ ReadLine
    \/ ReadLineFails
    \/ Close
    \/ DeviceComplete
    \/ DevicePing
    \/ DeviceChatter

Spec == Init /\ [][Next]_vars

\* ---------------------------------------------------------------- progress
\* The steps of send_queue itself, none of them a failing call on the port.
Program ==
    \/ StartSerialComms
    \/ LoadFile
    \/ InitLogger
    \/ SetReady
    \/ WriteLine
    \/ ReadLine
    \/ Close

NextLive ==
    \/ Program
    \/ DeviceComplete
    \/ DevicePing
    \/ DeviceChatter

\* The interpreter goes on with send_queue whenever its next statement can
\* run (readline blocks until a line is there), and the device finishes every
\* command it was sent.
Fairness ==
    /\ WF_vars(Program)
    /\ WF_vars(DeviceComplete)

\* Runs without I/O errors on a device that answers.
SpecLive == Init /\ [][NextLive]_vars /\ Fairness

\* -------------------------------------------------------------- the caller
\* The methods of the object are public: after send_queue has returned or
\* raised, its caller may call them again.
ApiCall(call, raised, result) ==
    [call |-> call, raised |-> raised, result |-> result]

NoResult == response_data(<< >>, 0, NoEstimate)

Returned == pc = "done" /\ Len(api) < MaxApiCalls

\* close (178-183) with close_logger (68-70), called by the caller.
CallClose ==
    /\ Returned
    /\ IF file = "None"
       THEN \* line 180: None has no close()
            /\ api' = Append(api, ApiCall("close", "AttributeError", NoResult))
            /\ UNCHANGED << resources, portOps >>
       ELSE IF log_file = "unset"
       THEN \* line 69: the attribute log_file was never assigned
            /\ api' = Append(api, ApiCall("close", "AttributeError", NoResult))
            /\ fileState' = "closed"
            /\ closes' = [closes EXCEPT
                             !.file = IF fileState = "open" THEN @ + 1 ELSE @]
            /\ UNCHANGED << portState, logState, fileCursor, portOps >>
       ELSE /\ api' = Append(api, ApiCall("close", "none", NoResult))
            /\ fileState' = "closed"
            /\ logState' = IF log_file # "None" THEN "closed" ELSE logState
            /\ portState' = IF serial_port # "None" THEN "closed" ELSE portState
            /\ portOps' = IF serial_port # "None" THEN portOps + 1 ELSE portOps
            /\ closes' =
                 [ file |-> IF fileState = "open" THEN closes.file + 1
                            ELSE closes.file,
                   log  |-> IF log_file # "None" /\ logState = "open"
                            THEN closes.log + 1 ELSE closes.log,
                   port |-> IF serial_port # "None" /\ portState = "open"
                            THEN closes.port + 1 ELSE closes.port ]
            /\ UNCHANGED fileCursor
    /\ UNCHANGED << inputs, object, link, pc, exitStatus, history >>

\* read_line (124-157), called by the caller, the clock reading t.
CallReadLine ==
    /\ Returned
    /\ \E t \in {c \in ClockValues : c >= now} :
          LET readable == dry_run \/ (serial_port # "None" /\ portState = "open")
              l  == IF dry_run THEN DryRunLine ELSE Head(rx)
              e  == Estimate(l, ready, file_position, total_lines, t)
              rd == response_data(l, file_position, e)
          IN  IF readable
              THEN /\ dry_run \/ rx # << >>
                   /\ rx' = IF dry_run THEN rx ELSE Tail(rx)
                   /\ portOps' = IF dry_run THEN portOps ELSE portOps + 1
                   /\ est' = e
                   /\ estCalls' = IF e.ran THEN estCalls + 1 ELSE estCalls
                   /\ now' = IF e.ran THEN t ELSE now
                   /\ ready' = TRUE
                   /\ ops' = Append(ops, IF startswith(l, READY)
                                         THEN "read_ready" ELSE "read_other")
                   /\ api' = Append(api, ApiCall("read_line", "none", rd))
              ELSE \* line 128 on None, or on a port that is closed
                   /\ api' = Append(api, ApiCall("read_line",
                                 IF serial_port = "None" THEN "AttributeError"
                                 ELSE "SerialException", NoResult))
                   /\ UNCHANGED << rx, portOps, est, estCalls, now, ready, ops >>
    /\ UNCHANGED << inputs, serial_port, file, log_file, file_position,
                    total_lines, resources, tx, devCompleted, devExtra, pc,
                    exitStatus, command_data, records, logRows >>

\* write_line advancing file_position before it tests self.ready.
CallWriteLineAdvancingFirst ==
    /\ Returned
    /\ ~(ready /\ file # "None")
    /\ file_position' = file_position + 1
    /\ api' = Append(api, ApiCall("write_line", "Not ready to write!", NoResult))
    /\ UNCHANGED << inputs, serial_port, file, log_file, ready, total_lines,
                    resources, link, pc, exitStatus, history, portOps >>

\* write_line (159-173), called by the caller.
CallWriteLine ==
    /\ Returned
    /\ IF ready /\ file # "None"
       THEN IF fileState # "open"
            THEN \* line 161: readline on a closed file
                 /\ api' = Append(api, ApiCall("write_line", "ValueError", NoResult))
                 /\ UNCHANGED << fileCursor, file_position, tx, portOps, ready,
                                 command_data, ops >>
            ELSE LET l  == strip(readline(fileLines, fileCursor))
                     ok == dry_run \/ (serial_port # "None" /\ portState = "open")
                 IN  /\ fileCursor' = fileCursor + 1
                     /\ file_position' = file_position + 1
                     /\ IF ok
                        THEN /\ tx' = IF dry_run THEN tx ELSE Append(tx, l \o << NL >>)
                             /\ portOps' = IF dry_run THEN portOps ELSE portOps + 1
                             /\ ready' = FALSE
                             /\ command_data' = WriteData(l, file_position', total_lines)
                             /\ ops' = Append(ops, "write")
                             /\ api' = Append(api, ApiCall("write_line", "none", NoResult))
                        ELSE \* line 164 on None, or on a port that is closed
                             /\ api' = Append(api, ApiCall("write_line",
                                           IF serial_port = "None" THEN "AttributeError"
                                           ELSE "SerialException", NoResult))
                             /\ UNCHANGED << tx, portOps, ready, command_data, ops >>
       ELSE \* line 173
            /\ api' = Append(api, ApiCall("write_line", "Not ready to write!", NoResult))
            /\ UNCHANGED << fileCursor, file_position, tx, portOps, ready,
                            command_data, ops >>
    /\ UNCHANGED << inputs, serial_port, file, log_file, total_lines, portState,
                    fileState, logState, closes, rx, devCompleted, devExtra,
                    pc, exitStatus, now, est, records, logRows, estCalls >>

NextApi ==
    \/ Next
    \/ CallClose
    \/ CallReadLine
    \/ CallWriteLine

\* send_queue followed by the caller's calls.
SpecApi == Init /\ [][NextApi]_vars

\* ================================================================== claims
Writes == {i \in 1..Len(ops) : ops[i] = "write"}
ReadyReads == {i \in 1..Len(ops) : ops[i] = "read_ready"}
N == Len(fileLines)
LastRecord == records[Len(records)]

\* C1: a command is written only in state Ready, and after a write the state
\* stays Busy until a line beginning with READY was read: a Ready session has
\* read READY since its last write, and between two writes a READY was read.
\* (Stated for queue files of at least one line, where total_lines is right.)
C1_OneCommandInFlight ==
    N >= 1 =>
        \A i \in Writes :
            /\ ready => \E k \in ReadyReads : k > i
            /\ \A j \in Writes : j > i => \E k \in ReadyReads : i < k /\ k < j

\* C2: after normal completion of a queue file of N >= 0 lines,
\* file_position = N = total_lines and there are exactly N records, whose
\* 'line' fields are 1..N in order.
C2_CompletedRunCountsN ==
    exitStatus = "ok" =>
        /\ file_position = N
        /\ total_lines = N
        /\ Len(records) = N
        /\ \A i \in 1..Len(records) : records[i].line = i

\* C3: with an empty queue file nothing is written, nothing is read, no record
\* is produced and the estimator never runs.
C3_EmptyQueueNoIteration ==
    (fileExists /\ N = 0) =>
        /\ ops = << >>
        /\ tx = << >>
        /\ records = << >>
        /\ estCalls = 0
        /\ file_position = 0

\* C4: when the run has ended and the port had been opened, the port was closed
\* exactly once, the logger (if one was opened) was closed exactly once, and
\* the queue file is not left open.
C4_ReleasedOnEveryExit ==
    (pc = "done" /\ portState # "unopened") =>
        /\ portState = "closed" /\ closes.port = 1
        /\ (logState # "unopened" => logState = "closed" /\ closes.log = 1)
        /\ fileState # "open"

\* C5 as claimed: with a missing queue file the serial port is never opened.
C5_MissingFileBeforeOpen ==
    ~fileExists => portState = "unopened" /\ portOps = 0

\* C5 as amended: with a missing queue file the run aborts with an error in
\* load_file, after start_serial_comms has run (in a run that is not a dry run
\* the port is open by then), and before the logger is initialised or a command
\* is written; file_position stays 0.
C5_MissingFileAbortsInLoad ==
    ~fileExists =>
        /\ file = "None" /\ fileState = "unopened"
        /\ log_file = "unset" /\ logRows = << >>
        /\ tx = << >> /\ ops = << >> /\ records = << >>
        /\ file_position = 0
        /\ pc \in {"start", "load", "done"}
        /\ (pc = "done" => exitStatus \in {"exit1", "exception"})
        /\ (exitStatus = "exception" => dry_run \/ portState = "open")

C5_Witness ==
    ~fileExists /\ exitStatus = "exception" /\ portState = "open"

\* C6: when opening the port fails in a run that is not a dry run, send_queue
\* ends with exit(1) before the queue file is loaded: the file is never opened,
\* the logger never initialised, nothing written, file_position stays 0.
C6_OpenFailureAbortsFirst ==
    (~dry_run /\ ~portOK /\ pc # "start") =>
        /\ pc = "done" /\ exitStatus = "exit1"
        /\ serial_port = "None" /\ portState = "unopened"
        /\ file = "None" /\ fileState = "unopened" /\ total_lines = 0
        /\ log_file = "unset" /\ logState = "unopened" /\ logRows = << >>
        /\ tx = << >> /\ ops = << >> /\ records = << >>
        /\ file_position = 0

C6_Witness ==
    ~dry_run /\ ~portOK /\ fileExists /\ N > 0 /\ exitStatus = "exit1"

\* C7: a READY the device sends without having completed a command is not
\* taken for an acknowledgment: the estimator runs, and READY-acknowledged
\* records exist, at most once per command the device completed.
\* (Stated for queue files of at least one line, where total_lines is right.)
C7_RedundantReadyIgnored ==
    (~dry_run /\ N >= 1) =>
        /\ estCalls <= devCompleted
        /\ Cardinality({i \in 1..Len(records) :
                           startswith(records[i].response, READY)})
              <= devCompleted

\* C8: a dry run never touches the serial port, cannot end with the connection
\* error, gets "READY -- DRY RUN" as every response, and with a queue file of
\* N >= 1 lines ends normally with N records.
C8_DryRunNoTransport ==
    dry_run =>
        /\ serial_port = "None" /\ portState = "unopened"
        /\ portOps = 0 /\ tx = << >> /\ rx = << >> /\ closes.port = 0
        /\ exitStatus # "exit1"
        /\ \A i \in 1..Len(records) : records[i].response = DryRunLine
        /\ (pc = "done" /\ fileExists => exitStatus = "ok")
        /\ (exitStatus = "ok" /\ N >= 1 => Len(records) = N)

C8_Witness ==
    dry_run /\ exitStatus = "ok" /\ N = 3 /\ Len(records) = 3

\* a <= b for fractions with positive denominators
FracLeq(a, b) == a.n * b.d <= b.n * a.d

\* C9: in a run on N > 0 lines 'percent' never decreases from one record to
\* the next, and is 1.0 on the last record of a completed run.
C9_PercentMonotone ==
    N > 0 =>
        /\ \A i, j \in 1..Len(records) :
              i < j => FracLeq(records[i].percent, records[j].percent)
        /\ (exitStatus = "ok" =>
              /\ records # << >>
              /\ LastRecord.percent.n = LastRecord.percent.d)

C9_Witness ==
    ~dry_run /\ exitStatus = "ok" /\ N = 3 /\ Len(records) = 3

\* C10: right after an estimator run with commands still queued, if the
\* remaining time time_projected - time_ran is T whole seconds, then
\* hours_left = T div 3600, minutes_left = (T mod 3600) div 60 and
\* seconds_left = T mod 60.
C10_DecompositionInSeconds ==
    (pc = "loop" /\ est.ran /\ file_position < total_lines) =>
        LET d == est.time_projected.d
            n == est.time_projected.n - est.time_ran * d
            T == n \div d
        IN  (n >= 0 /\ n % d = 0) =>
                /\ LastRecord.hours_left = T \div 3600
                /\ LastRecord.minutes_left = (T % 3600) \div 60
                /\ LastRecord.seconds_left = T % 60

CloseCalls == {i \in 1..Len(api) : api[i].call = "close"}
LastOp == ops[Len(ops)]

\* C12: close() called again, or called when the port was never opened and
\* the queue file never loaded, raises nothing, and no resource is closed twice.
C12_CloseIdempotentAndSafe ==
    /\ \A i \in CloseCalls : api[i].raised = "none"
    /\ closes.file <= 1 /\ closes.log <= 1 /\ closes.port <= 1

\* C13: after a response that does not begin with READY was read in state
\* Busy, the state is still Busy.
\* (Stated for queue files of at least one line, where total_lines is right.)
C13_NonReadyKeepsBusy ==
    (N >= 1 /\ pc = "loop" /\ ops # << >> /\ LastOp = "read_other") => ~ready

\* A step in which read_line returned.
ReadStep == Len(ops') = Len(ops) + 1 /\ ops'[Len(ops')] # "write"

C15_LoggedOnlyOnReadyEdge ==
    N >= 1 =>
        \A i \in 2..Len(logRows) : startswith(logRows[i].response, READY)

\* C16: an active logger gets the header once, first, then one row per
\* iteration in dispatch order, and is closed by close() after the last row;
\* a disabled logger gets no write and no close while every exchange still runs.
C16_LogHeaderRowsClose ==
    /\ log_file = "unset" => logRows = << >> /\ logState = "unopened"
    /\ log_file # "unset" => (log_file = "None" <=> log_mode \notin {"file", "console"})
    /\ log_file \in {"file", "stdout"} =>
          /\ logRows = << log_header >> \o records
          /\ \A i \in 1..Len(records) : logRows[i + 1].line = i
          /\ logState = (IF exitStatus = "ok" THEN "closed" ELSE "open")
          /\ (exitStatus = "ok" =>
                closes.log = 1 /\ Len(logRows) = 1 + total_lines)
    /\ log_file = "None" =>
          /\ logRows = << >>
          /\ logState = "unopened" /\ closes.log = 0
          /\ (exitStatus = "ok" => Len(records) = total_lines)

C16_Witness ==
    /\ ~dry_run /\ log_mode = "file" /\ N = 3
    /\ exitStatus = "ok" /\ logState = "closed" /\ Len(logRows) = 4

\* C17: always 0 <= file_position <= total_lines and commands_queued() >= 0;
\* file_position counts the lines taken from the queue file, one per command
\* written, and no line is taken from the file past its end.
C17_CursorWithinQueue ==
    /\ 0 <= file_position /\ file_position <= total_lines
    /\ commands_queued(total_lines, file_position) >= 0
    /\ fileCursor = file_position
    /\ (exitStatus # "exception" => file_position = Cardinality(Writes))
    /\ fileCursor <= N

\* C18 as claimed: the calls alternate write, read, beginning with a write, and
\* a run that has ended has ended with a read.
C18_AlternateEndingWithRead ==
    /\ \A i \in 1..Len(ops) : (ops[i] = "write") <=> (i % 2 = 1)
    /\ (pc = "done" /\ ops # << >>) => LastOp # "write"

\* C18 as amended: the calls alternate write, read, beginning with a write;
\* the session waits in read_line exactly after a write that no read followed;
\* a run that completes has ended with a read, a run that an exception from the
\* port aborts has ended with a write or a read.
C18_StrictAlternation ==
    /\ \A i \in 1..Len(ops) : (ops[i] = "write") <=> (i % 2 = 1)
    /\ pc = "read" => Len(ops) % 2 = 1
    /\ (pc = "loop" \/ exitStatus = "ok") => Len(ops) % 2 = 0
    /\ (pc = "done" /\ Len(ops) % 2 = 1) => exitStatus = "exception"
    /\ ~dry_run => Len(tx) = Cardinality(Writes)

C18_Witness ==
    /\ ~dry_run /\ N = 3 /\ exitStatus = "ok" /\ Len(ops) = 6
    /\ LastOp = "read_ready"

\* The session waits in readline for a line that has not come.
Blocked == pc = "read" /\ ~dry_run /\ rx = << >>

\* C19: when every readline returns a line in the end and no call on the port
\* fails, send_queue ends; with the queue file there and the port opened it
\* ends through close(), the loop having stopped at commands_queued() = 0
\* after exactly total_lines writes; and while no line has come, no step of
\* send_queue is possible: nothing times the wait out.
C19_TerminatesWhenAnswered ==
    /\ <>(pc = "done")
    /\ []((pc = "done" /\ fileExists /\ (dry_run \/ portOK)) =>
             exitStatus = "ok")
    /\ [](exitStatus = "ok" =>
             /\ commands_queued(total_lines, file_position) = 0
             /\ Cardinality(Writes) = total_lines
             /\ fileState = "closed" /\ closes.file = 1)
    /\ [](Blocked => ~ENABLED Program)

C19_Witness ==
    /\ ~dry_run /\ N = 3 /\ exitStatus = "ok"
    /\ Cardinality(Writes) = 3 /\ devCompleted = 3

WriteLineCalls == {i \in 1..Len(api) : api[i].call = "write_line"}

\* C20: write_line called while ready is False, or with no queue file loaded,
\* raises "Not ready to write!" and changes nothing: file_position, the place
\* in the queue file, what was transmitted and ready stay as they were; and
\* send_queue itself never calls write_line in such a state.
C20_NotReadyWriteRaisesUnchanged ==
    /\ [](pc = "loop" => ready /\ file # "None")
    /\ [][(api' # api /\ api'[Len(api')].call = "write_line"
                      /\ ~(ready /\ file # "None")) =>
            /\ api'[Len(api')].raised = "Not ready to write!"
            /\ UNCHANGED << file_position, fileCursor, tx, ready, portOps, ops,
                            command_data, records, logRows, resources >> ]_vars

\* write_line was refused both with the queue file loaded (ready False) and
\* without one.
C20_Witness ==
    /\ \E i \in WriteLineCalls : api[i].raised = "Not ready to write!"
    /\ file # "None" /\ ~ready /\ file_position = 2

====
